---------------------------- MODULE Spec2Model ----------------------------
(***************************************************************************)
(* Model of scripts/download_incr_DB.py: the retrieval phase controller    *)
(* run(), the paginated lister and worker pool of GetAllObjectsFromS3, the *)
(* per-object worker GetPersistenceKey and the multipart ETag of           *)
(* calculate_multipart_etag.                                               *)
(*                                                                         *)
(* The remote store is the environment.  A key is a record                 *)
(* [folder, n]: folder is the listing prefix, n orders the keys of a       *)
(* prefix the way the store lists them.  The marker '' is 0.  A request    *)
(* either raises or is answered truthfully (the lock check answers 200     *)
(* exactly when the .lock object exists at that moment).                   *)
(***************************************************************************)
EXTENDS Integers, Sequences, FiniteSets, TLC

VARIABLES
    pc,                  \* position of the controller thread in run()
    folderName,          \* GetAllObjectsFromS3: argument of the running call
    MARKER,              \* GetAllObjectsFromS3: local MARKER
    list_of_keyurls,     \* GetAllObjectsFromS3: local list_of_keyurls
    workers,             \* one GetPersistenceKey invocation per pooled task
    mutex,               \* module-level Lock(): TRUE while acquired
    dirs,                \* local directories that exist
    files,               \* local file of each key: Absent or its bytes
    lock,                \* the remote .lock object exists
    Exclude_txnBodies,   \* module-level flag
    Exclude_microBlocks, \* module-level flag
    exitStatus,          \* NotExited, or the status the process ended with
    exitCause,           \* history: which statement ended the process
    reqs,                \* history: listing requests of the running call
    pass,                \* history: what happened since the loop top of run()
    etag,                \* the running call of calculate_multipart_etag
    stable               \* environment: the remote side and the disk have settled

vars == <<pc, folderName, MARKER, list_of_keyurls, workers, mutex, dirs, files,
          lock, Exclude_txnBodies, Exclude_microBlocks, exitStatus, exitCause,
          reqs, pass, etag, stable>>

-----------------------------------------------------------------------------
(* Bounds of the environment and program constants *)

NumSnapshotKeys == 2
\* Largest file, largest chunk size and number of calls on one file that the
\* checksum function is followed on
MaxFileSize == 4
MaxChunkSize == 3
MaxCalls == 2
\* The values a byte of such a file takes
Bytes == {0, 1}
NumDeltaKeys == 1
PageSize == 1
S3_MULTIPART_CHUNK_SIZE == 2

MAX_WORKER_JOBS == 50
MaxRetries == 3

PERSISTENCE_SNAPSHOT_NAME == "incremental"
STATEDELTA_DIFF_NAME == "statedelta"

NotExited == -1
\* A file that does not exist (bytes are never negative).
Absent == <<-1>>

\* The keys the store holds under a prefix, in listing order.
RemoteKeys(folder) ==
    IF folder = PERSISTENCE_SNAPSHOT_NAME
    THEN [i \in 1..NumSnapshotKeys |-> [folder |-> folder, n |-> i]]
    ELSE [i \in 1..NumDeltaKeys |-> [folder |-> folder, n |-> i]]

AllKeys ==
    {[folder |-> PERSISTENCE_SNAPSHOT_NAME, n |-> i] : i \in 1..NumSnapshotKeys}
    \cup {[folder |-> STATEDELTA_DIFF_NAME, n |-> i] : i \in 1..NumDeltaKeys}

\* The marker words a key contains.  The first key of the snapshot prefix
\* carries the txBodies marker, the first key of the state-delta prefix the
\* microBlocks marker; the other keys carry none.
KeyWords(key) ==
    IF key.n % 3 # 1 THEN {}
    ELSE IF key.folder = PERSISTENCE_SNAPSHOT_NAME THEN {"txBodies"}
    ELSE {"microBlocks"}

\* "txBodies" in key_url, "microBlocks" in key_url
Contains(key, word) == word \in KeyWords(key)

\* os.path.dirname(filename): snapshot keys lie under persistence/, state-delta
\* keys directly in the working directory.
Dirname(key) ==
    IF key.folder = PERSISTENCE_SNAPSHOT_NAME THEN "persistence" ELSE ""

\* The bytes the store holds for a key.
ObjectBytes(key) == [i \in 1..(key.n + 1) |-> key.n]

-----------------------------------------------------------------------------
(* calculate_multipart_etag *)

\* hashlib.md5(data).hexdigest(), kept symbolic (and so collision-free).
MD5(data) == [md5 |-> data]

\* fp.read(chunk_size) until it returns nothing
RECURSIVE ReadChunks(_, _)
ReadChunks(data, chunk_size) ==
    IF Len(data) = 0 THEN <<>>
    ELSE IF Len(data) <= chunk_size THEN <<data>>
    ELSE <<SubSeq(data, 1, chunk_size)>>
         \o ReadChunks(SubSeq(data, chunk_size + 1, Len(data)), chunk_size)

\* The list md5s after the read loop: one digest per chunk read, and the digest
\* of nothing when the first read returns nothing.
Md5sOf(data, chunk_size) ==
    LET chunks == ReadChunks(data, chunk_size)
    IN  IF Len(chunks) = 0 THEN <<MD5(<<>>)>>
        ELSE [i \in 1..Len(chunks) |-> MD5(chunks[i])]

\* '""'
EmptyEtag == [empty |-> TRUE]
\* '"%s"' % hexdigest
QuotedEtag(hex) == [quoted |-> hex]
\* '"%s-%s"' % (hexdigest of the joined digests, count)
MultipartEtag(digests, count) == [quotedOfDigests |-> digests, parts |-> count]

\* lines 188-194: the ETag made of the list md5s
NewEtag(md5s) ==
    IF Len(md5s) > 1 THEN MultipartEtag(md5s, Len(md5s))
    ELSE IF Len(md5s) = 1 THEN QuotedEtag(md5s[1])
    ELSE EmptyEtag

calculate_multipart_etag(data, chunk_size) == NewEtag(Md5sOf(data, chunk_size))

\* No call of calculate_multipart_etag is being followed step by step.
NoEtagCall == [pc |-> "none"]

\* new_etag before it is assigned
NoEtag == [unassigned |-> TRUE]

\* lines 175-177: the locals of a call on a file holding source, before the
\* first read; earlier keeps what the calls before it returned.
EtagCall(source, chunk_size, earlier) ==
    [pc |-> "read", source |-> source, chunk_size |-> chunk_size,
     offset |-> 0, first |-> TRUE, md5s |-> <<>>, reads |-> 0,
     new_etag |-> NoEtag, earlier |-> earlier]

\* Mutant: a read returns nothing when fewer than chunk_size bytes remain.
Read_WholeChunksOnly(source, offset, chunk_size) ==
    IF offset + chunk_size <= Len(source)
    THEN SubSeq(source, offset + 1, offset + chunk_size)
    ELSE <<>>

\* line 179: fp.read(chunk_size) at the file position offset
Read(source, offset, chunk_size) ==
    SubSeq(source, offset + 1,
           IF offset + chunk_size <= Len(source)
           THEN offset + chunk_size ELSE Len(source))

\* response.headers.get('ETag'): the store reports the multipart ETag of the
\* object it holds.
RemoteETag(key) == calculate_multipart_etag(ObjectBytes(key), S3_MULTIPART_CHUNK_SIZE)

-----------------------------------------------------------------------------
(* State after start-up: __main__ leaves both filters on, or clears both. *)

FreshPass ==
    [snapDone |-> FALSE, recheck |-> "none", deltaList |-> FALSE,
     deltaDone |-> FALSE,
     deltaFetch |-> FALSE, unpacked |-> FALSE, emptyPage |-> FALSE,
     ctrlErr |-> "none", workerErr |-> FALSE, workerFsErr |-> FALSE,
     heldInGap |-> FALSE, mkdirs |-> 0, existsErr |-> FALSE,
     snapListed |-> FALSE, heldInSnap |-> FALSE]

Init ==
    /\ pc = "CheckLock"
    /\ folderName = ""
    /\ MARKER = 0
    /\ list_of_keyurls = <<>>
    /\ workers = <<>>
    /\ mutex = FALSE
    /\ dirs = {}
    /\ files = [k \in AllKeys |-> Absent]
    /\ lock \in BOOLEAN
    /\ Exclude_txnBodies \in BOOLEAN
    /\ Exclude_microBlocks = Exclude_txnBodies
    /\ exitStatus = NotExited
    /\ exitCause = "none"
    /\ reqs = <<>>
    /\ pass = FreshPass
    /\ etag = NoEtagCall
    /\ stable = FALSE

Running == exitStatus = NotExited

\* Whether a request or a filesystem call goes through (TRUE) or raises: once
\* the environment has settled, none raises.
Outcomes == IF stable THEN {TRUE} ELSE BOOLEAN

\* What a listing request can come back with: an exception, a page without
\* entries, or the page the store holds.
ListingAnswers == IF stable THEN {"page"} ELSE {"raise", "empty", "page"}

\* How writing the response body to the local file can end.
StreamOutcomes ==
    IF stable THEN {"whole"}
    ELSE {"openError", "writeError", "streamError", "short", "whole"}

-----------------------------------------------------------------------------
(* run(): the controller *)

\* Mutant: the lock object is reported missing when it exists.
LockStatus_AlwaysAbsent == IF lock THEN 404 ELSE 404

\* The status of GET <bucket>/<folder>/.lock
LockStatus == IF lock THEN 200 ELSE 404

\* Mutant: the check never reports the lock.
UploadLock_NeverLocked(status_code) == FALSE

\* UploadLock(), given the response's status_code
UploadLock(status_code) == status_code = 200

\* Mutant: the handler leaves the loop instead of continuing it.
OnException_Break(history, what) ==
    /\ pc' = "Done"
    /\ pass' = [history EXCEPT !.ctrlErr = what]

\* except Exception: print, sleep(5), continue
OnException(history, what) ==
    /\ pc' = "Restart"
    /\ pass' = [history EXCEPT !.ctrlErr = what]

\* exit(status) and os._exit(status)
Exit(status, cause) ==
    /\ pc' = "Exited"
    /\ exitStatus' = status
    /\ exitCause' = cause

\* line 201: the first lock check of a pass
CheckLock ==
    /\ Running /\ pc = "CheckLock"
    /\ \E answered \in Outcomes :
          IF ~answered
          THEN OnException(FreshPass, "UploadLock")
          ELSE /\ pass' = FreshPass
               /\ pc' = IF UploadLock(LockStatus) THEN "CheckLock"
                        ELSE "DownloadSnapshot"
    /\ UNCHANGED <<folderName, MARKER, list_of_keyurls, workers, mutex, dirs,
                   files, lock, Exclude_txnBodies, Exclude_microBlocks,
                   exitStatus, exitCause, reqs>>
    /\ UNCHANGED <<etag, stable>>

\* GetAllObjectsFromS3, lines 68-72: the locals before the first request
EnterListing(folder) ==
    /\ folderName' = folder
    /\ MARKER' = 0
    /\ list_of_keyurls' = <<>>
    /\ reqs' = <<>>
    /\ pc' = "List"

\* lines 56-58: CleanupDir, CreateAndChangeDir, then the snapshot listing starts
GetEntirePersistenceFromS3 ==
    /\ Running /\ pc = "DownloadSnapshot"
    /\ \E ok \in Outcomes :
          IF ok
          THEN /\ dirs' = dirs \ {"persistence"}
               /\ files' = [k \in AllKeys |->
                              IF k.folder = PERSISTENCE_SNAPSHOT_NAME
                              THEN Absent ELSE files[k]]
               /\ EnterListing(PERSISTENCE_SNAPSHOT_NAME)
               /\ UNCHANGED pass
          ELSE /\ OnException(pass, "CleanupDir")
               /\ UNCHANGED <<dirs, files, folderName, MARKER, list_of_keyurls,
                              reqs>>
    /\ UNCHANGED <<workers, mutex, lock, Exclude_txnBodies,
                   Exclude_microBlocks, exitStatus, exitCause>>
    /\ UNCHANGED <<etag, stable>>

-----------------------------------------------------------------------------
(* GetAllObjectsFromS3: the listing loop *)

Min(a, b) == IF a < b THEN a ELSE b

\* The store's answer to a listing request: the keys of the prefix after the
\* marker, at most PageSize of them (max-keys), flagged truncated when more
\* remain.
PageOf(folder, marker) ==
    LET after(key) == key.n > marker
        rest == SelectSeq(RemoteKeys(folder), after)
    IN  [entries |-> SubSeq(rest, 1, Min(PageSize, Len(rest))),
         truncated |-> Len(rest) > PageSize]

\* Mutant: only the txBodies filter is applied.
KeepKey_TxOnly(key) == ~(Exclude_txnBodies /\ Contains(key, "txBodies"))

\* line 86: the key is kept as a download task
KeepKey(key) ==
    /\ ~(Exclude_txnBodies /\ Contains(key, "txBodies"))
    /\ ~(Exclude_microBlocks /\ Contains(key, "microBlocks"))

\* Mutant: lastkey is set only for the keys that are kept.
NextLastKey_OnlyKept(lastkey, key) == IF KeepKey(key) THEN key.n ELSE lastkey

\* line 89: lastkey after a loop iteration over key
NextLastKey(lastkey, key) == key.n

\* lines 83-89: the loop over the entries of a page, from the state
\* [list, lastkey] it starts in
RECURSIVE ScanPage(_, _)
ScanPage(entries, acc) ==
    IF entries = <<>> THEN acc
    ELSE LET key == Head(entries)
         IN  ScanPage(Tail(entries),
                      [list |-> IF KeepKey(key) THEN Append(acc.list, key)
                                ELSE acc.list,
                       lastkey |-> NextLastKey(acc.lastkey, key)])

\* One invocation of GetPersistenceKey, not yet picked up by a pool thread
QueuedWorker == [pc |-> "queued", retry_counter |-> 0, fetches |-> 0,
                 mismatches |-> 0]

\* lines 97-98: the pool maps GetPersistenceKey over the task list
StartPool(tasks) ==
    /\ workers' = [i \in 1..Len(tasks) |-> QueuedWorker]
    /\ pc' = "Pool"

\* line 58-59 and line 64: what the caller does with the return value 1
ReturnOne ==
    IF folderName = PERSISTENCE_SNAPSHOT_NAME
    THEN Exit(1, "emptyListing")
    ELSE /\ pc' = "Unpack"
         /\ UNCHANGED <<exitStatus, exitCause>>

\* Mutant: only an empty first page ends the call.
EmptyResponse_FirstPageOnly(page, marker) == page.entries = <<>> /\ marker = 0

\* line 79: tree[startInd:] == [], whatever marker the request carried
EmptyResponse(page, marker) == page.entries = <<>>

\* lines 76-95: one iteration of the listing loop
ListPage ==
    /\ Running /\ pc = "List"
    /\ \E answer \in ListingAnswers :
          LET page == IF answer = "page" THEN PageOf(folderName, MARKER)
                      ELSE [entries |-> <<>>, truncated |-> FALSE]
              scan == ScanPage(page.entries,
                               [list |-> list_of_keyurls, lastkey |-> 0])
              seen == [pass EXCEPT !.deltaList =
                                      @ \/ folderName = STATEDELTA_DIFF_NAME]
          IN  /\ reqs' = Append(reqs, [marker |-> MARKER, page |-> page,
                                       answered |-> answer # "raise"])
              /\ IF answer = "raise"
                 THEN /\ OnException(seen, "listing")
                      /\ UNCHANGED <<MARKER, list_of_keyurls, workers,
                                     exitStatus, exitCause>>
                 ELSE IF EmptyResponse(page, MARKER)
                 THEN /\ pass' = [seen EXCEPT !.emptyPage = TRUE]
                      /\ ReturnOne
                      /\ UNCHANGED <<MARKER, list_of_keyurls, workers>>
                 ELSE /\ pass' = [seen EXCEPT !.snapListed =
                                    @ \/ (~page.truncated /\ folderName =
                                             PERSISTENCE_SNAPSHOT_NAME)]
                      /\ list_of_keyurls' = scan.list
                      /\ IF page.truncated
                         THEN /\ MARKER' = scan.lastkey
                              /\ UNCHANGED <<pc, workers>>
                         ELSE /\ StartPool(scan.list)
                              /\ UNCHANGED MARKER
                      /\ UNCHANGED <<exitStatus, exitCause>>
    /\ UNCHANGED <<folderName, mutex, dirs, files, lock, Exclude_txnBodies,
                   Exclude_microBlocks>>
    /\ UNCHANGED <<etag, stable>>

\* Mutant: the shutdown returns as soon as one pooled call has ended.
PoolIsDrained_First ==
    workers = <<>> \/ \E w \in 1..Len(workers) : workers[w].pc \in {"done", "dead"}

\* line 99: pool.shutdown(wait=True) returns once every pooled call has ended,
\* by a return or by an exception
PoolIsDrained == \A w \in 1..Len(workers) : workers[w].pc \in {"done", "dead"}

\* lines 99-101: the pool is shut down and the call returns 0; lines 58 and
\* 64-65: the caller goes on
PoolReturn ==
    /\ Running /\ pc = "Pool"
    /\ PoolIsDrained
    /\ workers' = <<>>
    /\ IF folderName = PERSISTENCE_SNAPSHOT_NAME
       THEN /\ pc' = "RecheckLock"
            /\ pass' = [pass EXCEPT !.snapDone = TRUE]
       ELSE /\ pc' = "Unpack"
            /\ pass' = [pass EXCEPT !.deltaDone = TRUE]
    /\ UNCHANGED <<folderName, MARKER, list_of_keyurls, mutex, dirs,
                   files, lock, Exclude_txnBodies, Exclude_microBlocks,
                   exitStatus, exitCause, reqs>>
    /\ UNCHANGED <<etag, stable>>

\* Mutant: the second lock check does not gate the state-delta download.
AfterRecheck_Ungated(locked) == "DownloadDelta"

\* lines 207-209: where the controller goes once the second lock check is
\* answered
AfterRecheck(locked) == IF locked THEN "CheckLock" ELSE "DownloadDelta"

\* line 207: the lock check after the snapshot download
RecheckLock ==
    /\ Running /\ pc = "RecheckLock"
    /\ \E answered \in Outcomes :
          IF ~answered
          THEN OnException(pass, "UploadLock")
          ELSE /\ pc' = AfterRecheck(UploadLock(LockStatus))
               /\ pass' = [pass EXCEPT !.recheck =
                              IF UploadLock(LockStatus) THEN "locked"
                              ELSE "unlocked"]
    /\ UNCHANGED <<folderName, MARKER, list_of_keyurls, workers, mutex, dirs,
                   files, lock, Exclude_txnBodies, Exclude_microBlocks,
                   exitStatus, exitCause, reqs>>
    /\ UNCHANGED <<etag, stable>>

\* lines 63-64: CleanupCreateAndChangeDir, then the state-delta listing starts
GetStateDeltaFromS3 ==
    /\ Running /\ pc = "DownloadDelta"
    /\ \E ok \in Outcomes :
          IF ok
          THEN /\ files' = [k \in AllKeys |->
                              IF k.folder = STATEDELTA_DIFF_NAME
                              THEN Absent ELSE files[k]]
               /\ EnterListing(STATEDELTA_DIFF_NAME)
               /\ UNCHANGED pass
          ELSE /\ OnException(pass, "CleanupCreateAndChangeDir")
               /\ UNCHANGED <<files, folderName, MARKER, list_of_keyurls, reqs>>
    /\ UNCHANGED <<workers, mutex, dirs, lock, Exclude_txnBodies,
                   Exclude_microBlocks, exitStatus, exitCause>>
    /\ UNCHANGED <<etag, stable>>

\* line 65, lines 152-163: every file of the scratch directory is extracted
\* and removed, or removed
ExtractAllGzippedObjects ==
    /\ Running /\ pc = "Unpack"
    /\ \E ok \in Outcomes :
          IF ok
          THEN /\ files' = [k \in AllKeys |->
                              IF k.folder = STATEDELTA_DIFF_NAME
                              THEN Absent ELSE files[k]]
               /\ pass' = [pass EXCEPT !.unpacked = TRUE]
               /\ pc' = "Done"
          ELSE /\ OnException(pass, "ExtractAllGzippedObjects")
               /\ UNCHANGED files
    /\ UNCHANGED <<folderName, MARKER, list_of_keyurls, workers, mutex, dirs,
                   lock, Exclude_txnBodies, Exclude_microBlocks, exitStatus,
                   exitCause, reqs>>
    /\ UNCHANGED <<etag, stable>>

\* lines 213, 221-222: break, print, exit(0)
Done ==
    /\ Running /\ pc = "Done"
    /\ Exit(0, "done")
    /\ UNCHANGED <<folderName, MARKER, list_of_keyurls, workers, mutex, dirs,
                   files, lock, Exclude_txnBodies, Exclude_microBlocks, reqs,
                   pass>>
    /\ UNCHANGED <<etag, stable>>

\* lines 218-219: the pause is over, the loop starts again
Restart ==
    /\ Running /\ pc = "Restart"
    /\ pc' = "CheckLock"
    /\ UNCHANGED <<folderName, MARKER, list_of_keyurls, workers, mutex, dirs,
                   files, lock, Exclude_txnBodies, Exclude_microBlocks,
                   exitStatus, exitCause, reqs, pass>>
    /\ UNCHANGED <<etag, stable>>

\* GetEntirePersistenceFromS3 has been called and has not returned.
InSnapshotPhase ==
    \/ pc = "DownloadSnapshot"
    \/ pc \in {"List", "Pool"} /\ folderName = PERSISTENCE_SNAPSHOT_NAME

\* The uploader creates or removes the .lock object.
Uploader ==
    /\ Running /\ ~stable
    /\ lock' = ~lock
    /\ pass' = [pass EXCEPT !.heldInGap =
                   @ \/ (~lock /\ pc \in {"RecheckLock", "DownloadDelta"}),
                            !.heldInSnap =
                   @ \/ (~lock /\ InSnapshotPhase)]
    /\ UNCHANGED <<pc, folderName, MARKER, list_of_keyurls, workers, mutex,
                   dirs, files, Exclude_txnBodies, Exclude_microBlocks,
                   exitStatus, exitCause, reqs>>
    /\ UNCHANGED <<etag, stable>>

-----------------------------------------------------------------------------
(* GetPersistenceKey: one pooled call per task *)

TaskKey(w) == list_of_keyurls[w]

InPool(w) ==
    /\ Running /\ pc = "Pool"
    /\ w \in 1..Len(workers)

\* Calls a pool thread is executing
Active == {v \in 1..Len(workers) : workers[v].pc \notin {"queued", "done", "dead"}}

\* An exception leaves GetPersistenceKey: the call ends, and pool.map, whose
\* results are never read, keeps the exception to itself.
Raise(w, filesystem) ==
    /\ workers' = [workers EXCEPT ![w].pc = "dead"]
    /\ pass' = [pass EXCEPT !.workerErr = TRUE,
                            !.workerFsErr = @ \/ filesystem,
                            !.existsErr = @ \/ (workers[w].pc = "makedirs"
                                                /\ Dirname(TaskKey(w)) \in dirs),
                            !.deltaFetch = @ \/ (workers[w].pc \in {"queued", "fetch"}
                                                 /\ folderName = STATEDELTA_DIFF_NAME)]

\* line 106: requests.get(key_url, stream=True); lines 107-110
WFetch(w) ==
    /\ InPool(w)
    /\ \/ workers[w].pc = "fetch"
       \/ workers[w].pc = "queued" /\ Cardinality(Active) < MAX_WORKER_JOBS
    /\ \E ok \in Outcomes :
          IF ok
          THEN /\ workers' = [workers EXCEPT
                                ![w].pc = IF Dirname(TaskKey(w)) # ""
                                          THEN "acquire" ELSE "open",
                                ![w].fetches = @ + 1]
               /\ pass' = [pass EXCEPT !.deltaFetch =
                              @ \/ folderName = STATEDELTA_DIFF_NAME]
          ELSE Raise(w, FALSE)
    /\ UNCHANGED <<pc, folderName, MARKER, list_of_keyurls, mutex, dirs, files,
                   lock, Exclude_txnBodies, Exclude_microBlocks, exitStatus,
                   exitCause, reqs>>
    /\ UNCHANGED <<etag, stable>>

\* Mutant: the check-then-create sequence is not guarded.
CanAcquire_Unguarded == TRUE

\* mutex.acquire() returns only when the lock is free
CanAcquire == ~mutex

\* lines 111-112: mutex.acquire(), os.path.exists(dirname)
WAcquire(w) ==
    /\ InPool(w)
    /\ workers[w].pc = "acquire"
    /\ CanAcquire
    /\ mutex' = TRUE
    /\ workers' = [workers EXCEPT
                     ![w].pc = IF Dirname(TaskKey(w)) \in dirs
                               THEN "release" ELSE "makedirs"]
    /\ UNCHANGED <<pc, folderName, MARKER, list_of_keyurls, dirs, files, lock,
                   Exclude_txnBodies, Exclude_microBlocks, exitStatus,
                   exitCause, reqs, pass>>
    /\ UNCHANGED <<etag, stable>>

\* line 113: os.makedirs(dirname); it raises when the directory exists or
\* cannot be created, and the mutex stays acquired
WMakedirs(w) ==
    /\ InPool(w)
    /\ workers[w].pc = "makedirs"
    /\ \E ok \in Outcomes :
          IF ok /\ Dirname(TaskKey(w)) \notin dirs
          THEN /\ dirs' = dirs \cup {Dirname(TaskKey(w))}
               /\ workers' = [workers EXCEPT ![w].pc = "release"]
               /\ pass' = [pass EXCEPT !.mkdirs = @ + 1]
          ELSE /\ Raise(w, TRUE)
               /\ UNCHANGED dirs
    /\ UNCHANGED <<pc, folderName, MARKER, list_of_keyurls, mutex, files, lock,
                   Exclude_txnBodies, Exclude_microBlocks, exitStatus,
                   exitCause, reqs>>
    /\ UNCHANGED <<etag, stable>>

\* line 114: mutex.release()
WRelease(w) ==
    /\ InPool(w)
    /\ workers[w].pc = "release"
    /\ mutex' = FALSE
    /\ workers' = [workers EXCEPT ![w].pc = "open"]
    /\ UNCHANGED <<pc, folderName, MARKER, list_of_keyurls, dirs, files, lock,
                   Exclude_txnBodies, Exclude_microBlocks, exitStatus,
                   exitCause, reqs, pass>>
    /\ UNCHANGED <<etag, stable>>

\* A body that stops short of the object's last byte.
Truncated(body) == SubSeq(body, 1, Len(body) - 1)

\* lines 116-124: open(filename, 'wb') and the streaming loop.  The open can
\* fail; the body can end with an exception of the stream or of f.write, after
\* part of it was written; it can arrive short without any exception; or it
\* arrives whole.
WWrite(w) ==
    /\ InPool(w)
    /\ workers[w].pc = "open"
    /\ \E r \in StreamOutcomes :
          LET body == ObjectBytes(TaskKey(w))
          IN  CASE r = "openError" ->
                     /\ Raise(w, TRUE)
                     /\ UNCHANGED files
                [] r = "writeError" ->
                     /\ Raise(w, TRUE)
                     /\ files' = [files EXCEPT ![TaskKey(w)] = Truncated(body)]
                [] r = "streamError" ->
                     /\ Raise(w, FALSE)
                     /\ files' = [files EXCEPT ![TaskKey(w)] = Truncated(body)]
                [] r = "short" ->
                     /\ workers' = [workers EXCEPT ![w].pc = "verify"]
                     /\ files' = [files EXCEPT ![TaskKey(w)] = Truncated(body)]
                     /\ UNCHANGED pass
                [] r = "whole" ->
                     /\ workers' = [workers EXCEPT ![w].pc = "verify"]
                     /\ files' = [files EXCEPT ![TaskKey(w)] = body]
                     /\ UNCHANGED pass
    /\ UNCHANGED <<pc, folderName, MARKER, list_of_keyurls, mutex, dirs, lock,
                   Exclude_txnBodies, Exclude_microBlocks, exitStatus,
                   exitCause, reqs>>
    /\ UNCHANGED <<etag, stable>>

\* Mutant: the ceiling is reached one mismatch early.
GivesUp_Early(retry_counter) == retry_counter >= MaxRetries

\* line 130: the retry ceiling
GivesUp(retry_counter) == retry_counter > MaxRetries

\* lines 125-136: recompute the ETag and compare; on a mismatch remove the
\* file, count the retry, and give up or fetch again
WVerify(w) ==
    /\ InPool(w)
    /\ workers[w].pc = "verify"
    /\ LET calc_md5_hash == calculate_multipart_etag(files[TaskKey(w)],
                                                     S3_MULTIPART_CHUNK_SIZE)
           md5_hash == RemoteETag(TaskKey(w))
       IN  IF calc_md5_hash # md5_hash
           THEN /\ files' = [files EXCEPT ![TaskKey(w)] = Absent]
                /\ workers' = [workers EXCEPT
                                 ![w].retry_counter = @ + 1,
                                 ![w].mismatches = @ + 1,
                                 ![w].pc = IF GivesUp(workers[w].retry_counter + 1)
                                           THEN "giveup" ELSE "fetch"]
           ELSE /\ workers' = [workers EXCEPT ![w].pc = "done"]
                /\ UNCHANGED files
    /\ UNCHANGED <<pc, folderName, MARKER, list_of_keyurls, mutex, dirs, lock,
                   Exclude_txnBodies, Exclude_microBlocks, exitStatus,
                   exitCause, reqs, pass>>
    /\ UNCHANGED <<etag, stable>>

\* lines 131-133: print, sleep(5), os._exit(1)
WGiveUp(w) ==
    /\ InPool(w)
    /\ workers[w].pc = "giveup"
    /\ Exit(1, "integrity")
    /\ UNCHANGED <<folderName, MARKER, list_of_keyurls, workers, mutex, dirs,
                   files, lock, Exclude_txnBodies, Exclude_microBlocks, reqs,
                   pass>>
    /\ UNCHANGED <<etag, stable>>

-----------------------------------------------------------------------------

-----------------------------------------------------------------------------
(* calculate_multipart_etag followed statement by statement *)

\* The program outside the followed call does not move.
ProgramUnchanged ==
    UNCHANGED <<pc, folderName, MARKER, list_of_keyurls, workers, mutex, dirs,
                files, lock, Exclude_txnBodies, Exclude_microBlocks,
                exitStatus, exitCause, reqs, pass, stable>>

\* lines 178-185: one iteration of the read loop
EtagRead ==
    /\ etag.pc = "read"
    /\ LET data == Read(etag.source, etag.offset, etag.chunk_size)
       IN  IF data = <<>>
           THEN etag' = [etag EXCEPT
                           !.md5s = IF etag.first THEN Append(@, MD5(<<>>))
                                    ELSE @,
                           !.pc = "format"]
           ELSE etag' = [etag EXCEPT
                           !.md5s = Append(@, MD5(data)),
                           !.first = FALSE,
                           !.offset = @ + Len(data),
                           !.reads = @ + 1]
    /\ ProgramUnchanged

\* lines 187-196: new_etag is made of md5s and returned
EtagReturn ==
    /\ etag.pc = "format"
    /\ etag' = [etag EXCEPT !.new_etag = NewEtag(etag.md5s), !.pc = "returned"]
    /\ ProgramUnchanged

\* line 125 in a later iteration of the worker's loop: the function is called
\* again on the file, which nobody has modified
EtagCallAgain ==
    /\ etag.pc = "returned"
    /\ Len(etag.earlier) + 1 < MaxCalls
    /\ etag' = EtagCall(etag.source, etag.chunk_size,
                        Append(etag.earlier, etag.new_etag))
    /\ ProgramUnchanged

\* Files of at most MaxFileSize bytes
FileContents == UNION {[1..n -> Bytes] : n \in 0..MaxFileSize}

\* The function is called on any small file with any small chunk size.
InitEtag ==
    /\ pc = "CheckLock"
    /\ folderName = ""
    /\ MARKER = 0
    /\ list_of_keyurls = <<>>
    /\ workers = <<>>
    /\ mutex = FALSE
    /\ dirs = {}
    /\ files = [k \in AllKeys |-> Absent]
    /\ lock = FALSE
    /\ Exclude_txnBodies = TRUE
    /\ Exclude_microBlocks = TRUE
    /\ exitStatus = NotExited
    /\ exitCause = "none"
    /\ reqs = <<>>
    /\ pass = FreshPass
    /\ stable = FALSE
    /\ \E source \in FileContents, chunk_size \in 1..MaxChunkSize :
          etag = EtagCall(source, chunk_size, <<>>)

NextEtag == EtagRead \/ EtagReturn \/ EtagCallAgain

SpecEtag == InitEtag /\ [][NextEtag]_vars

-----------------------------------------------------------------------------
Next ==
    \/ CheckLock
    \/ GetEntirePersistenceFromS3
    \/ ListPage
    \/ PoolReturn
    \/ RecheckLock
    \/ GetStateDeltaFromS3
    \/ ExtractAllGzippedObjects
    \/ Done
    \/ Restart
    \/ Uploader
    \/ \E w \in 1..Len(workers) : WFetch(w)
    \/ \E w \in 1..Len(workers) : WAcquire(w)
    \/ \E w \in 1..Len(workers) : WMakedirs(w)
    \/ \E w \in 1..Len(workers) : WRelease(w)
    \/ \E w \in 1..Len(workers) : WWrite(w)
    \/ \E w \in 1..Len(workers) : WVerify(w)
    \/ \E w \in 1..Len(workers) : WGiveUp(w)

Spec == Init /\ [][Next]_vars

-----------------------------------------------------------------------------
(* The same program in an environment that settles, under fair scheduling *)

\* From this step on the lock is absent, every request is answered with what
\* the store holds and no filesystem call fails.
Stabilize ==
    /\ Running /\ ~stable
    /\ stable' = TRUE
    /\ lock' = FALSE
    /\ UNCHANGED <<pc, folderName, MARKER, list_of_keyurls, workers, mutex,
                   dirs, files, Exclude_txnBodies, Exclude_microBlocks,
                   exitStatus, exitCause, reqs, pass, etag>>

\* The steps of the main thread, which runs run()
Controller ==
    \/ CheckLock
    \/ GetEntirePersistenceFromS3
    \/ ListPage
    \/ PoolReturn
    \/ RecheckLock
    \/ GetStateDeltaFromS3
    \/ ExtractAllGzippedObjects
    \/ Done
    \/ Restart

\* The steps of the pool thread that runs the w-th task
Worker(w) ==
    \/ WFetch(w)
    \/ WAcquire(w)
    \/ WMakedirs(w)
    \/ WRelease(w)
    \/ WWrite(w)
    \/ WVerify(w)
    \/ WGiveUp(w)

\* The pool has more threads than a listing of the model has tasks
\* (MAX_WORKER_JOBS), so every task has a thread of its own.
Threads == 1..(NumSnapshotKeys + NumDeltaKeys)

NextFair == Next \/ Stabilize

\* A thread that can take a step is not held back forever.
SpecFair ==
    /\ Init
    /\ [][NextFair]_vars
    /\ WF_vars(Controller)
    /\ \A w \in Threads : WF_vars(Worker(w))

-----------------------------------------------------------------------------
(* Properties *)

\* The local file of key holds bytes whose recomputed ETag is the one the
\* store reports.
Verified(key) ==
    /\ files[key] # Absent
    /\ calculate_multipart_etag(files[key], S3_MULTIPART_CHUNK_SIZE) = RemoteETag(key)

FilesOf(folder) == {k \in AllKeys : k.folder = folder}

\* The state-delta part of the running pass has begun.
DeltaStarted ==
    \/ pass.deltaList
    \/ pc \in {"List", "Pool"} /\ folderName = STATEDELTA_DIFF_NAME
    \/ pc \in {"Unpack", "Done"}

\* C1: once a download phase has returned, every local file a worker opened
\* is verified against the store's ETag or does not exist.
C1_FilesVerifiedOrAbsent ==
    /\ pass.snapDone =>
          \A k \in FilesOf(PERSISTENCE_SNAPSHOT_NAME) :
              files[k] = Absent \/ Verified(k)
    /\ pc = "Unpack" =>
          \A k \in FilesOf(STATEDELTA_DIFF_NAME) :
              files[k] = Absent \/ Verified(k)

\* C2: GetAllObjectsFromS3 returns 0 only when every task of its list has
\* completed with a verified local file.
C2_NoPartialSuccessReturn ==
    /\ pc = "RecheckLock" =>
          \A i \in 1..Len(list_of_keyurls) : Verified(list_of_keyurls[i])
    /\ (pc = "Unpack" /\ pass.deltaDone) =>
          \A i \in 1..Len(list_of_keyurls) : Verified(list_of_keyurls[i])

\* C3: a task is fetched at most 4 times; it gives up, and the process
\* aborts with status 1, exactly at its own 4th checksum mismatch; with 1, 2
\* or 3 mismatches followed by a match it completes; its retry counter counts
\* its own mismatches only.
C3_RetryCeiling ==
    /\ \A w \in 1..Len(workers) :
          /\ workers[w].fetches <= 4
          /\ workers[w].retry_counter = workers[w].mismatches
          /\ workers[w].pc = "giveup" <=> workers[w].mismatches = 4
          /\ workers[w].pc = "done" =>
                /\ workers[w].mismatches <= 3
                /\ workers[w].fetches = workers[w].mismatches + 1
                /\ Verified(TaskKey(w))
    /\ exitCause = "integrity" =>
          /\ exitStatus = 1
          /\ \E w \in 1..Len(workers) :
                workers[w].pc = "giveup" /\ workers[w].fetches = 4

\* C3 witness: the process aborted on one task's 4th mismatch while another
\* task had completed after 3 mismatches of its own.
C3_Witness ==
    /\ exitCause = "integrity"
    /\ \E w \in 1..Len(workers) :
          workers[w].pc = "done" /\ workers[w].mismatches = 3

\* C4: in a pass whose second lock check reported locked there is no
\* state-delta listing request, no state-delta fetch and no unpack, and the
\* controller is back at the first lock check; and whatever belongs to the
\* state-delta part happens only after a snapshot download and an unlocked
\* second check of the same pass.
C4_PhaseGating ==
    /\ pass.recheck = "locked" =>
          /\ pc = "CheckLock"
          /\ ~pass.deltaList /\ ~pass.deltaFetch /\ ~pass.unpacked
          /\ ~pass.deltaDone
    /\ (DeltaStarted \/ pass.deltaFetch \/ pass.unpacked \/ pc = "DownloadDelta") =>
          pass.snapDone /\ pass.recheck = "unlocked"

\* C4 witness: the second check of a pass reported locked after its snapshot
\* download had returned.
C4_Witness == pass.recheck = "locked" /\ pass.snapDone /\ pc = "CheckLock"

\* C5 as stated: a lock that becomes held between the end of the snapshot
\* download and the start of the state-delta download keeps the pass from
\* the state-delta download.
C5_LockInGapStopsDelta == pass.heldInGap => ~DeltaStarted

\* C5 as amended: when the lock is held at the moment the second lock check
\* is answered, the pass does not go on to the state-delta download: the
\* controller returns to the first lock check (or to the restart pause when
\* the request itself fails).
C5_LockAtRecheckRestarts ==
    [][(pc = "RecheckLock" /\ lock /\ pc' # "RecheckLock") =>
          /\ pc' \in {"CheckLock", "Restart"}
          /\ ~pass'.deltaList /\ ~pass'.deltaFetch]_vars

\* C5 witness: the lock was set after the snapshot download, was still held
\* when the second check was answered, and the pass went back to the start.
C5_Witness ==
    /\ pass.heldInGap /\ lock
    /\ pass.recheck = "locked" /\ pc = "CheckLock"

\* C6: after a zero-entry listing page the controller restarts; the process
\* neither ends nor goes on to the next phase.
C6_EmptyListingRestarts == pass.emptyPage => pc \in {"Restart", "CheckLock"}

\* C7: the process ends only with status 0 after snapshot download, unlocked
\* second check, state-delta download and unpack of one pass, or with a
\* non-zero status after more than 3 checksum mismatches of one object.
C7_TerminalOutcomes ==
    pc = "Exited" =>
       \/ /\ exitStatus = 0
          /\ pass.snapDone /\ pass.recheck = "unlocked"
          /\ pass.deltaDone /\ pass.unpacked
       \/ /\ exitStatus # 0
          /\ \E w \in 1..Len(workers) : workers[w].mismatches > 3

\* C8: an exception in the controller's own steps never ends the process and
\* never lets the pass go on: the controller is in the restart pause, and
\* from the pause it goes nowhere but to the first lock check of a new pass.
C8_ControllerErrorRestarts ==
    [][/\ pass'.ctrlErr # "none" =>
             /\ pc' \in {"Restart", "CheckLock"}
             /\ exitStatus' = NotExited
       /\ (pass'.ctrlErr # "none" /\ pass.ctrlErr = "none") => pc' = "Restart"
       /\ pc = "Restart" => pc' \in {"Restart", "CheckLock"}]_vars

\* C8 witness: the unpack step raised, after everything before it had
\* succeeded, and the controller is in the restart pause.
C8_Witness ==
    /\ pc = "Restart"
    /\ pass.ctrlErr = "ExtractAllGzippedObjects"
    /\ pass.deltaDone

\* C9: a worker's filesystem error keeps the pass from going on as if the
\* download had succeeded.
C9_WorkerFsErrorRestarts ==
    pass.workerFsErr =>
        /\ pc \notin {"RecheckLock", "DownloadDelta", "Unpack", "Done"}
        /\ ~(pc = "Exited" /\ exitStatus = 0)

\* The kept entries of the pages of a request log, in order.
RECURSIVE KeptOfPages(_)
KeptOfPages(log) ==
    IF log = <<>> THEN <<>>
    ELSE KeptOfPages(SubSeq(log, 1, Len(log) - 1))
         \o SelectSeq(log[Len(log)].page.entries, KeepKey)

\* The request log is that of a source that returned K non-empty pages, the
\* first K-1 truncated and the K-th not.
ListingComplete ==
    /\ reqs # <<>>
    /\ \A i \in 1..Len(reqs) :
          /\ reqs[i].answered
          /\ reqs[i].page.entries # <<>>
          /\ reqs[i].page.truncated <=> i < Len(reqs)

ListedKeys == {k \in AllKeys : \E i \in 1..Len(reqs) :
                  \E j \in 1..Len(reqs[i].page.entries) :
                      reqs[i].page.entries[j] = k}

\* The keys of the task list.
TaskKeys == {list_of_keyurls[i] : i \in 1..Len(list_of_keyurls)}

\* The filters that are switched on exclude the key.
Filtered(key) ==
    \/ Exclude_txnBodies /\ "txBodies" \in KeyWords(key)
    \/ Exclude_microBlocks /\ "microBlocks" \in KeyWords(key)

\* C11: a listed key is a task exactly when no enabled filter matches it;
\* with both filters off every listed key is a task; a filtered key is never
\* a worker's task and never has a local file.
C11_Filtering ==
    /\ \A k \in ListedKeys : k \in TaskKeys <=> ~Filtered(k)
    /\ (~Exclude_txnBodies /\ ~Exclude_microBlocks) => TaskKeys = ListedKeys
    /\ \A k \in AllKeys : Filtered(k) => files[k] = Absent
    /\ \A w \in 1..Len(workers) : ~Filtered(list_of_keyurls[w])

\* C11 witness: with the filters on, a complete snapshot listing dropped the
\* key with the txBodies marker and kept another, whose file was written.
C11_Witness ==
    /\ Exclude_txnBodies /\ ListingComplete
    /\ \E k \in ListedKeys : Filtered(k) /\ k \notin TaskKeys
    /\ \E k \in TaskKeys : files[k] # Absent

\* The workers inside the check-then-create sequence of lines 111-114.
InCreateSequence == {w \in 1..Len(workers) : workers[w].pc \in {"makedirs", "release"}}

\* The workers that have left the sequence at least once.
PastCreateSequence ==
    {w \in 1..Len(workers) :
        /\ Dirname(TaskKey(w)) # ""
        /\ \/ workers[w].pc \in {"open", "verify", "done", "giveup"}
           \/ workers[w].retry_counter > 0}

\* C12: whatever the interleaving of the workers that need the same missing
\* directory, at most one of them is inside the check-then-create sequence,
\* the directory is created once (by the time a worker has left the sequence
\* it exists and was created exactly once), and no worker is told that it
\* already exists.
C12_DirectoryCreatedOnce ==
    /\ Cardinality(InCreateSequence) <= 1
    /\ pass.mkdirs <= 1
    /\ ~pass.existsErr
    /\ (pc = "Pool" /\ PastCreateSequence # {}) =>
          /\ pass.mkdirs = 1
          /\ \A w \in PastCreateSequence : Dirname(TaskKey(w)) \in dirs

\* C12 witness: two workers needed the same missing directory at the same
\* time; one created it and is about to release the mutex, the other waits.
C12_Witness ==
    \E v, w \in 1..Len(workers) :
        /\ v # w
        /\ Dirname(TaskKey(v)) = Dirname(TaskKey(w))
        /\ workers[v].pc = "release" /\ pass.mkdirs = 1
        /\ workers[v].fetches = 1
        /\ workers[w].pc = "acquire" /\ workers[w].fetches = 1

\* C18: the mutex is held only by a worker that is inside the check-then-create
\* sequence, never by a worker that has stopped running.
C18_MutexHeldOnlyByRunningWorker ==
    mutex => InCreateSequence # {}

\* Some page of the current listing call came back with zero entries.
ZeroEntryPageSeen ==
    \E i \in 1..Len(reqs) : reqs[i].answered /\ reqs[i].page.entries = <<>>

\* C19: once a page of a listing call has come back with zero entries, on the
\* first request or on a continuation, the call has reported the empty-listing
\* error, it has started no download worker, and no object of its prefix is
\* fetched or written locally.
C19_ZeroEntryPageIsFatal ==
    ZeroEntryPageSeen =>
        /\ pc \notin {"List", "Pool"}
        /\ (folderName = PERSISTENCE_SNAPSHOT_NAME =>
               pc = "Exited" /\ exitCause = "emptyListing")
        /\ (pc \in {"Unpack", "Done", "Exited"} => pass.emptyPage)
        /\ workers = <<>>
        /\ \A k \in FilesOf(folderName) : files[k] = Absent
        /\ (folderName = STATEDELTA_DIFF_NAME => ~pass.deltaFetch)

\* C19 witness: an earlier truncated page put a task on the list, and the page
\* fetched through its continuation marker had zero entries.
C19_Witness ==
    /\ Len(reqs) >= 2
    /\ reqs[1].page.entries # <<>> /\ reqs[1].page.truncated
    /\ reqs[Len(reqs)].answered /\ reqs[Len(reqs)].page.entries = <<>>
    /\ reqs[Len(reqs)].marker # 0
    /\ list_of_keyurls # <<>>
    /\ pass.emptyPage

\* The step issues a listing request for the state-delta prefix.
DeltaRequestStep ==
    /\ folderName = STATEDELTA_DIFF_NAME
    /\ Len(reqs') = Len(reqs) + 1

\* The step issues an object fetch (requests.get of line 106).
FetchStep ==
    \E w \in 1..Len(workers) :
        /\ workers[w].pc \in {"queued", "fetch"}
        /\ Len(workers') = Len(workers)
        /\ workers'[w] # workers[w]

\* C16: a state-delta listing request or fetch is issued only in a pass whose
\* snapshot listing has finished, whose snapshot workers have all finished,
\* and whose lock check, made after that, reported unlocked; and an object
\* fetch is issued only after the last page of the listing has been read.
C16_InterPhaseOrdering ==
    [][/\ (DeltaRequestStep \/ (FetchStep /\ folderName = STATEDELTA_DIFF_NAME)) =>
             pass.snapListed /\ pass.snapDone /\ pass.recheck = "unlocked"
       /\ (pass.recheck # "unlocked" /\ pass'.recheck = "unlocked") =>
             pass.snapDone /\ pc = "RecheckLock" /\ workers = <<>>
       /\ (~pass.snapDone /\ pass'.snapDone) =>
             /\ pass.snapListed /\ folderName = PERSISTENCE_SNAPSHOT_NAME
             /\ \A w \in 1..Len(workers) : workers[w].pc \in {"done", "dead"}
       /\ (~pass.snapListed /\ pass'.snapListed) =>
             /\ folderName = PERSISTENCE_SNAPSHOT_NAME
             /\ ~pass.snapDone /\ pass.recheck = "none"
             /\ ListingComplete'
       /\ FetchStep => pc = "Pool" /\ ListingComplete /\ reqs' = reqs
       /\ (pc' = "List" => workers' = <<>>)]_vars

\* C16 witness: a state-delta object has been fetched in a pass that listed
\* and downloaded the snapshot and then found the lock absent.
C16_Witness ==
    /\ pc = "Pool" /\ folderName = STATEDELTA_DIFF_NAME
    /\ \E w \in 1..Len(workers) : workers[w].fetches >= 1
    /\ pass.deltaFetch /\ pass.deltaList
    /\ pass.snapListed /\ pass.snapDone /\ pass.recheck = "unlocked"

\* The step issues a listing request for the snapshot prefix.
SnapshotRequestStep ==
    /\ folderName = PERSISTENCE_SNAPSHOT_NAME
    /\ Len(reqs') = Len(reqs) + 1

\* C17 as stated: no snapshot listing request and no snapshot fetch is issued
\* in a state where the lock is held, and a pass that reaches Done never had
\* the lock held during its snapshot listing and download.
C17_SnapshotReadOnlyUnlocked ==
    [][/\ (SnapshotRequestStep \/
             (FetchStep /\ folderName = PERSISTENCE_SNAPSHOT_NAME)) => ~lock
       /\ (pc' = "Done" => ~pass'.heldInSnap)]_vars

\* C17 as amended: the snapshot call is entered only from a first lock check
\* answered while the lock was absent, and a pass reaches Done only after a
\* second check, made once the snapshot download had returned, was answered
\* while the lock was absent.
C17_LockAbsentAtBothChecks ==
    [][/\ (pc = "CheckLock" /\ pc' = "DownloadSnapshot") => ~lock
       /\ (pass'.recheck = "unlocked" /\ pass.recheck # "unlocked") =>
              ~lock /\ pass.snapDone
       /\ (~InSnapshotPhase /\ InSnapshotPhase') => ~lock /\ pc = "CheckLock"
       /\ (pc' = "Done" => pass'.snapDone /\ pass'.recheck = "unlocked")]_vars

\* C17 witness: the pass reached Done although the lock was set while its
\* snapshot was being listed and downloaded; the lock was absent again when
\* the second check was answered.
C17_Witness ==
    /\ pc = "Done"
    /\ pass.heldInSnap
    /\ pass.snapDone /\ pass.recheck = "unlocked"

\* C13: called on an empty file, with any chunk size, the function returns
\* the pair of quotes with nothing between them.
C13_EmptyFileEmptyChecksum ==
    (etag.pc = "returned" /\ Len(etag.source) = 0) => etag.new_etag = EmptyEtag

\* The number of chunks of a file of size s read with chunk size c.
NumChunks(s, c) == (s + c - 1) \div c

\* C14: on a non-empty file of size s with chunk size c the function reads
\* N = ceil(s/c) chunks and collects their N digests in file order; with
\* N = 1 it returns the quoted digest of the file, with N > 1 the quoted
\* digest of the N digests followed by -N; it returns what every earlier call
\* on the same file returned.
C14_ChunkedChecksum ==
    (etag.pc # "none" /\ Len(etag.source) > 0) =>
        LET s == Len(etag.source)
            c == etag.chunk_size
            N == NumChunks(s, c)
            chunk(i) == SubSeq(etag.source, (i - 1) * c + 1,
                               IF i * c < s THEN i * c ELSE s)
        IN  /\ etag.reads <= N /\ Len(etag.md5s) = etag.reads
            /\ \A i \in 1..Len(etag.md5s) : etag.md5s[i] = [md5 |-> chunk(i)]
            /\ etag.pc \in {"format", "returned"} => etag.reads = N
            /\ etag.pc = "returned" =>
                  /\ N = 1 => etag.new_etag = [quoted |-> [md5 |-> etag.source]]
                  /\ N > 1 => etag.new_etag =
                                 [quotedOfDigests |-> etag.md5s, parts |-> N]
                  /\ \A i \in 1..Len(etag.earlier) :
                        etag.earlier[i] = etag.new_etag
                  /\ etag.new_etag = calculate_multipart_etag(etag.source, c)

\* C14 witness: a second call has returned on a file of several chunks, the
\* last of them shorter than the chunk size.
C14_Witness ==
    /\ etag.pc = "returned"
    /\ Len(etag.earlier) = 1
    /\ NumChunks(Len(etag.source), etag.chunk_size) > 1
    /\ Len(etag.source) % etag.chunk_size # 0
    /\ etag.new_etag = [quotedOfDigests |-> etag.md5s, parts |-> Len(etag.md5s)]

\* C15: once the environment has settled, a controller that is at the top of
\* its loop (where every restart leads) eventually reaches Done and exits with
\* status zero.
C15_EventualSuccess ==
    [](stable /\ Running /\ pc = "CheckLock" =>
          <>(pc = "Exited" /\ exitStatus = 0 /\ pass.unpacked))

=============================================================================
